---------------------------- MODULE Spec2Model ----------------------------
(***************************************************************************)
(* A model of src/Python/Tools/md-to-docx.py: MarkdownTemplateProcessor.   *)
(*                                                                         *)
(* Text is modelled as Python models it, as a sequence of characters: a    *)
(* str is a tuple of one-character strings, so that str.replace, re.sub,   *)
(* str.strip, str.split and slicing are computed character by character.   *)
(*                                                                         *)
(* Specifications:                                                         *)
(*   SpecFill    set_custom_template / fill_template on one processor      *)
(*   SpecRender  the line loop of markdown_to_docx                         *)
(*   SpecTable   _add_table_to_doc applied to buffered table rows          *)
(*   SpecInline  _add_formatted_paragraph applied to one line              *)
(*   SpecFillAll fill_template applied once, to every short template       *)
(***************************************************************************)
EXTENDS Integers, Sequences, FiniteSets, TLC

VARIABLES
    template,        \* self.template
    filled_content,  \* self.filled_content
    data,            \* the dict object handed to the last fill_template call,
                     \* as the call left it
    ret,             \* the value the last fill_template call returned
    call,            \* history: what the last fill_template call was given,
                     \* [made, T: self.template as read, d: data as passed]
    calls,           \* number of method calls made on the processor
    \* markdown_to_docx and the helpers it calls
    rpc,             \* position: "idle", "loop" (in the for loop), "done",
                     \* "raised" (an exception left the call), and for a
                     \* helper called alone "table_call", "inline_call"
    doc,             \* the Document being built: its block elements in order
    current_list,    \* local current_list
    in_table,        \* local in_table
    table_data,      \* local table_data
    line,            \* the loop variable after line.strip(); for
                     \* _add_formatted_paragraph alone, its text argument
    pos,             \* number of lines of the input the loop has taken
    \* history, read by the properties only
    list_src,        \* the input line number of each item of current_list
    table_src,       \* the input line number of each row of table_data
    origin,          \* for each element of doc, the input lines it renders
    buffered         \* number of items ever appended to current_list

fillVars == <<template, filled_content, data, ret, call, calls>>

renderVars == <<rpc, doc, current_list, in_table, table_data, line, pos,
                list_src, table_src, origin, buffered>>

vars == <<template, filled_content, data, ret, call, calls,
          rpc, doc, current_list, in_table, table_data, line, pos,
          list_src, table_src, origin, buffered>>

(***************************************************************************)
(* Bounds of the model.                                                    *)
(***************************************************************************)
\* method calls made on one processor object
MaxCalls == 2
\* lines of the text handed to markdown_to_docx
MaxLines == 4
\* buffered rows handed to _add_table_to_doc
MaxRows == 3
\* characters of a line handed to _add_formatted_paragraph
MaxInlineLen == 6
\* characters of a template made of braces and identifier characters
MaxTemplateLen == 8

(***************************************************************************)
(* Characters and strings.                                                 *)
(***************************************************************************)
Digits == <<"0", "1", "2", "3", "4", "5", "6", "7", "8", "9">>

\* [A-Za-z0-9_]: the identifier characters of a placeholder
AsciiWordChars ==
    { "a","b","c","d","e","f","g","h","i","j","k","l","m",
      "n","o","p","q","r","s","t","u","v","w","x","y","z",
      "A","B","C","D","E","F","G","H","I","J","K","L","M",
      "N","O","P","Q","R","S","T","U","V","W","X","Y","Z",
      "0","1","2","3","4","5","6","7","8","9","_" }

\* what \w matches in a str pattern; among the characters used here, the
\* ASCII identifier characters
IsWordChar(c) == c \in AsciiWordChars

\* str.isspace for one character, as str.strip() and str.split() use it
IsSpace(c) == c \in {" ", "\t", "\n"}

MinOf(S) == CHOOSE x \in S : \A y \in S : x <= y

\* s[i-1:].startswith(p), i a 1-based index
StartsWithAt(s, p, i) ==
    /\ i >= 1
    /\ i + Len(p) - 1 <= Len(s)
    /\ \A j \in 1..Len(p) : s[i + j - 1] = p[j]

\* s.startswith(p)
StartsWith(s, p) == StartsWithAt(s, p, 1)

\* s.endswith(p)
EndsWith(s, p) == Len(p) <= Len(s) /\ StartsWithAt(s, p, Len(s) - Len(p) + 1)

\* p in s
Contains(s, p) == \E i \in 1..(Len(s) + 1) : StartsWithAt(s, p, i)

\* the indices of s where p occurs
Occurrences(s, p) == {j \in 1..(Len(s) - Len(p) + 1) : StartsWithAt(s, p, j)}

\* the least element of S that is >= i, 0 if none
FirstFrom(S, i) ==
    LET rest == {j \in S : j >= i}
    IN  IF rest = {} THEN 0 ELSE MinOf(rest)

\* a faulty str.replace, s.replace(old, new, 1): only the first occurrence
\* is replaced
StrReplaceFirstOnly(s, old, new) ==
    LET j == FirstFrom(Occurrences(s, old), 1)
    IN  IF j = 0 THEN s
        ELSE SubSeq(s, 1, j - 1) \o new \o SubSeq(s, j + Len(old), Len(s))

RECURSIVE ReplaceFrom(_, _, _, _, _)
\* the tail of s.replace(old, new) from index i on, occ the occurrences of
\* old in s: they are taken leftmost first and never overlap (old is never
\* empty here)
ReplaceFrom(s, old, new, i, occ) ==
    LET j == FirstFrom(occ, i)
    IN  IF j = 0 THEN SubSeq(s, i, Len(s))
        ELSE SubSeq(s, i, j - 1) \o new
                 \o ReplaceFrom(s, old, new, j + Len(old), occ)

\* s.replace(old, new)
StrReplace(s, old, new) == ReplaceFrom(s, old, new, 1, Occurrences(s, old))

RECURSIVE Join(_, _)
\* sep.join(parts)
Join(parts, sep) ==
    IF parts = <<>> THEN <<>>
    ELSE IF Len(parts) = 1 THEN parts[1]
    ELSE parts[1] \o sep \o Join(Tail(parts), sep)

RECURSIVE IntToStr(_)
\* str(n) for an int n >= 0
IntToStr(n) ==
    IF n < 10 THEN <<Digits[n + 1]>>
    ELSE IntToStr(n \div 10) \o <<Digits[(n % 10) + 1]>>

\* "%02d" as strftime pads a field
Pad2(n) == IF n < 10 THEN <<"0">> \o IntToStr(n) ELSE IntToStr(n)

\* datetime.strftime("%Y-%m-%d %H:%M") of a (four-digit-year) timestamp
StrfTime(t) ==
    IntToStr(t.Y) \o <<"-">> \o Pad2(t.M) \o <<"-">> \o Pad2(t.D)
        \o <<" ">> \o Pad2(t.h) \o <<":">> \o Pad2(t.m)

(***************************************************************************)
(* The regular expression \{\{(\w+)\}\} of fill_template.                  *)
(***************************************************************************)
RECURSIVE WordRunLen(_, _)
\* the length of the longest run of \w characters of s starting at index i
WordRunLen(s, i) ==
    IF i <= Len(s) /\ IsWordChar(s[i]) THEN 1 + WordRunLen(s, i + 1) ELSE 0

\* the length of the match of \{\{(\w+)\}\} at index i of s, 0 if none; \w+
\* is greedy and must be followed by "}}", so the match is unique
MatchLenAt(s, i) ==
    IF StartsWithAt(s, <<"{", "{">>, i)
    THEN LET n == WordRunLen(s, i + 2)
         IN  IF n > 0 /\ StartsWithAt(s, <<"}", "}">>, i + 2 + n)
             THEN n + 4 ELSE 0
    ELSE 0

\* the indices of s where the pattern matches
Matches(s) == {j \in 1..Len(s) : MatchLenAt(s, j) > 0}

\* "[To be filled]"
ToBeFilled == <<"[","T","o"," ","b","e"," ","f","i","l","l","e","d","]">>

\* "Not specified"
NotSpecified == <<"N","o","t"," ","s","p","e","c","i","f","i","e","d">>

\* "generation_date"
GenerationDate == <<"g","e","n","e","r","a","t","i","o","n","_","d","a","t","e">>

\* a faulty final pass, re.sub(..., count=1): only the first match is replaced
ReSubFirstOnly(s) ==
    LET j == FirstFrom(Matches(s), 1)
    IN  IF j = 0 THEN s
        ELSE SubSeq(s, 1, j - 1) \o ToBeFilled
                 \o SubSeq(s, j + MatchLenAt(s, j), Len(s))

RECURSIVE ReSubFrom(_, _, _)
\* the tail of re.sub(r'\{\{(\w+)\}\}', '[To be filled]', s) from index i on,
\* ms the match positions of s: matches are taken leftmost first and the scan
\* resumes after each match
ReSubFrom(s, i, ms) ==
    LET j == FirstFrom(ms, i)
    IN  IF j = 0 THEN SubSeq(s, i, Len(s))
        ELSE SubSeq(s, i, j - 1) \o ToBeFilled
                 \o ReSubFrom(s, j + MatchLenAt(s, j), ms)

\* re.sub(r'\{\{(\w+)\}\}', '[To be filled]', s)
ReSub(s) == ReSubFrom(s, 1, Matches(s))

(***************************************************************************)
(* Values of a data record.  A value is [kind, v]:                         *)
(*   "str"  v the characters        "int"  v the number                    *)
(*   "none" None                    "list" v a sequence of values          *)
(*   "dict" v a sequence of <<key, value>> in insertion order              *)
(***************************************************************************)
StrV(s) == [kind |-> "str", v |-> s]
IntV(n) == [kind |-> "int", v |-> n]
NoneV == [kind |-> "none", v |-> <<>>]
ListV(items) == [kind |-> "list", v |-> items]
DictV(pairs) == [kind |-> "dict", v |-> pairs]

\* str(x) for a scalar x, as an f-string or str() formats it
PyStr(x) ==
    CASE x.kind = "str" -> x.v
      [] x.kind = "int" -> IntToStr(x.v)
      [] x.kind = "none" -> <<"N","o","n","e">>

\* [f"{prefix}- {item}" for item in items]
BulletLines(prefix, items) ==
    [n \in 1..Len(items) |-> prefix \o <<"-", " ">> \o PyStr(items[n])]

RECURSIVE Indent(_)
\* "  " * level
Indent(level) == IF level = 0 THEN <<>> ELSE <<" ", " ">> \o Indent(level - 1)

RECURSIVE DictLinesFlat(_, _)
\* a faulty _dict_to_markdown: the recursive call passes level, not level + 1
DictLinesFlat(d, level) ==
    IF d = <<>> THEN <<>>
    ELSE LET key == d[1][1]
             value == d[1][2]
             head == Indent(level) \o <<"-"," ","*","*">> \o key \o <<":","*","*">>
             here ==
                 CASE value.kind = "dict" ->
                        <<head, Join(DictLinesFlat(value.v, level), <<"\n">>)>>
                   [] value.kind = "list" ->
                        <<head>> \o BulletLines(Indent(level) \o <<" ", " ">>, value.v)
                   [] OTHER -> <<head \o <<" ">> \o PyStr(value)>>
         IN  here \o DictLinesFlat(Tail(d), level)

RECURSIVE DictLines(_, _)
\* the list `result` that _dict_to_markdown(d, level) builds
DictLines(d, level) ==
    IF d = <<>> THEN <<>>
    ELSE LET key == d[1][1]
             value == d[1][2]
             head == Indent(level) \o <<"-"," ","*","*">> \o key \o <<":","*","*">>
             here ==
                 CASE value.kind = "dict" ->
                        <<head, Join(DictLines(value.v, level + 1), <<"\n">>)>>
                   [] value.kind = "list" ->
                        <<head>> \o BulletLines(Indent(level) \o <<" ", " ">>, value.v)
                   [] OTHER -> <<head \o <<" ">> \o PyStr(value)>>
         IN  here \o DictLines(Tail(d), level)

\* _dict_to_markdown(d, level)
_dict_to_markdown(d, level) == Join(DictLines(d, level), <<"\n">>)

\* the display string fill_template computes for one value
Display(value) ==
    CASE value.kind = "list" -> Join(BulletLines(<<>>, value.v), <<"\n">>)
      [] value.kind = "dict" -> _dict_to_markdown(value.v, 0)
      [] value.kind = "none" -> NotSpecified
      [] OTHER -> PyStr(value)

\* f"{{{{{placeholder}}}}}"
Token(placeholder) == <<"{", "{">> \o placeholder \o <<"}", "}">>

\* 'generation_date' in data
HasKey(d, key) == \E n \in 1..Len(d) : d[n][1] = key

\* data after `data['generation_date'] = now` when the key is missing
WithGenerationDate(d, now) ==
    IF HasKey(d, GenerationDate) THEN d
    ELSE Append(d, <<GenerationDate, StrV(StrfTime(now))>>)

RECURSIVE ReplaceAll(_, _)
\* the loop `for placeholder, value in data.items()` run on `filled`
ReplaceAll(filled, d) ==
    IF d = <<>> THEN filled
    ELSE ReplaceAll(StrReplace(filled, Token(d[1][1]), Display(d[1][2])), Tail(d))

\* the string fill_template returns for data d (generation_date already set)
FillResult(t, d) == ReSub(ReplaceAll(t, d))

(***************************************************************************)
(* Inputs of SpecFill.                                                     *)
(***************************************************************************)
\* the template _get_default_template returns
DefaultTemplate ==
    <<"#"," ","{","{","d","o","c","u","m","e","n","t","_","t","i","t","l","e","}","}","\n">>
 \o <<"\n">>
 \o <<"#","#"," ","E","x","e","c","u","t","i","v","e"," ","S","u","m","m","a","r","y","\n">>
 \o <<"{","{","e","x","e","c","u","t","i","v","e","_","s","u","m","m","a","r","y","}","}","\n">>
 \o <<"\n">>
 \o <<"#","#"," ","P","r","o","j","e","c","t"," ","I","n","f","o","r","m","a","t","i","o","n","\n">>
 \o <<"-"," ","*","*","P","r","o","j","e","c","t"," ","N","a","m","e",":","*","*"," ","{","{","p","r","o","j","e","c","t","_","n","a","m","e","}","}","\n">>
 \o <<"-"," ","*","*","P","r","o","j","e","c","t"," ","M","a","n","a","g","e","r",":","*","*"," ","{","{","p","r","o","j","e","c","t","_","m","a","n","a","g","e","r","}","}","\n">>
 \o <<"-"," ","*","*","S","t","a","r","t"," ","D","a","t","e",":","*","*"," ","{","{","s","t","a","r","t","_","d","a","t","e","}","}","\n">>
 \o <<"-"," ","*","*","E","n","d"," ","D","a","t","e",":","*","*"," ","{","{","e","n","d","_","d","a","t","e","}","}","\n">>
 \o <<"-"," ","*","*","S","t","a","t","u","s",":","*","*"," ","{","{","p","r","o","j","e","c","t","_","s","t","a","t","u","s","}","}","\n">>
 \o <<"\n">>
 \o <<"#","#"," ","O","b","j","e","c","t","i","v","e","s","\n">>
 \o <<"{","{","p","r","o","j","e","c","t","_","o","b","j","e","c","t","i","v","e","s","}","}","\n">>
 \o <<"\n">>
 \o <<"#","#"," ","S","c","o","p","e","\n">>
 \o <<"#","#","#"," ","I","n"," ","S","c","o","p","e","\n">>
 \o <<"{","{","i","n","_","s","c","o","p","e","_","i","t","e","m","s","}","}","\n">>
 \o <<"\n">>
 \o <<"#","#","#"," ","O","u","t"," ","o","f"," ","S","c","o","p","e","\n">>
 \o <<"{","{","o","u","t","_","s","c","o","p","e","_","i","t","e","m","s","}","}","\n">>
 \o <<"\n">>
 \o <<"#","#"," ","S","t","a","k","e","h","o","l","d","e","r","s","\n">>
 \o <<"|"," ","N","a","m","e"," ","|"," ","R","o","l","e"," ","|"," ","C","o","n","t","a","c","t"," ","|"," ","R","e","s","p","o","n","s","i","b","i","l","i","t","y"," ","|","\n">>
 \o <<"|","-","-","-","-","-","-","|","-","-","-","-","-","-","|","-","-","-","-","-","-","-","-","-","|","-","-","-","-","-","-","-","-","-","-","-","-","-","-","-","-","|","\n">>
 \o <<"{","{","s","t","a","k","e","h","o","l","d","e","r","_","t","a","b","l","e","}","}","\n">>
 \o <<"\n">>
 \o <<"#","#"," ","T","i","m","e","l","i","n","e","\n">>
 \o <<"{","{","t","i","m","e","l","i","n","e","_","s","e","c","t","i","o","n","}","}","\n">>
 \o <<"\n">>
 \o <<"#","#"," ","B","u","d","g","e","t","\n">>
 \o <<"-"," ","*","*","T","o","t","a","l"," ","B","u","d","g","e","t",":","*","*"," ","{","{","t","o","t","a","l","_","b","u","d","g","e","t","}","}","\n">>
 \o <<"-"," ","*","*","S","p","e","n","t"," ","t","o"," ","D","a","t","e",":","*","*"," ","{","{","s","p","e","n","t","_","a","m","o","u","n","t","}","}","\n">>
 \o <<"-"," ","*","*","R","e","m","a","i","n","i","n","g",":","*","*"," ","{","{","r","e","m","a","i","n","i","n","g","_","b","u","d","g","e","t","}","}","\n">>
 \o <<"\n">>
 \o <<"#","#","#"," ","B","u","d","g","e","t"," ","B","r","e","a","k","d","o","w","n","\n">>
 \o <<"{","{","b","u","d","g","e","t","_","b","r","e","a","k","d","o","w","n","}","}","\n">>
 \o <<"\n">>
 \o <<"#","#"," ","R","i","s","k","s"," ","a","n","d"," ","M","i","t","i","g","a","t","i","o","n","\n">>
 \o <<"{","{","r","i","s","k","s","_","s","e","c","t","i","o","n","}","}","\n">>
 \o <<"\n">>
 \o <<"#","#"," ","K","e","y"," ","D","e","l","i","v","e","r","a","b","l","e","s","\n">>
 \o <<"{","{","d","e","l","i","v","e","r","a","b","l","e","s","_","l","i","s","t","}","}","\n">>
 \o <<"\n">>
 \o <<"#","#"," ","S","u","c","c","e","s","s"," ","M","e","t","r","i","c","s","\n">>
 \o <<"{","{","s","u","c","c","e","s","s","_","m","e","t","r","i","c","s","}","}","\n">>
 \o <<"\n">>
 \o <<"#","#"," ","A","d","d","i","t","i","o","n","a","l"," ","N","o","t","e","s","\n">>
 \o <<"{","{","a","d","d","i","t","i","o","n","a","l","_","n","o","t","e","s","}","}","\n">>
 \o <<"\n">>
 \o <<"-","-","-","\n">>
 \o <<"*","D","o","c","u","m","e","n","t"," ","g","e","n","e","r","a","t","e","d"," ","o","n",":"," ","{","{","g","e","n","e","r","a","t","i","o","n","_","d","a","t","e","}","}","*","\n">>
 \o <<"*","P","r","e","p","a","r","e","d"," ","b","y",":"," ","{","{","p","r","e","p","a","r","e","d","_","b","y","}","}","*","\n">>

KeyK == <<"k">>
KeyA == <<"a">>
KeyY == <<"y">>

\* templates handed to set_custom_template
Templates ==
    { <<>>,
      <<"a">>,
      <<"{","{","k","}","}">>,
      <<"{","{","a","}","}">>,
      <<"{","{","y","}","}">>,
      <<"{","{","k","}","}"," ","{","{","k","}","}">>,
      <<"{","{","k","}","}","{","{","a","}","}">>,
      <<"{","{","a","}","}",":","{","{","k","}","}">>,
      <<"{","{","g","e","n","e","r","a","t","i","o","n","_","d","a","t","e","}","}">>,
      <<"a","{","{","k","}","}"," ","{","{","g","e","n","e","r","a","t","i","o","n","_","d","a","t","e","}","}">>,
      <<"{","{","{","k","}","}">>,
      <<"{","{","k","}","}","a","}","}">>,
      <<"{","{","{","{","k","}","}","}","}">>,
      <<"{","{","a","{","{","k","}","}","a","}","}">>,
      <<"{","{"," ","k"," ","}","}">>,
      <<"{","{","}","}">>,
      <<"{","k","}">>,
      <<"#"," ","{","{","k","}","}","\n","{","{","y","}","}">> }

\* scalar values (str, int) a placeholder may be bound to
Scalars ==
    { StrV(<<"v">>), StrV(<<>>), StrV(<<"{","{","a","}","}">>), StrV(<<"{">>),
      StrV(<<"{","a","}","}">>), StrV(<<"k">>), IntV(42) }

\* the mapping {"A": {"B": "1"}}
NestedAB == DictV(<<  <<<<"A">>, DictV(<< <<<<"B">>, StrV(<<"1">>)>> >>)>>  >>)

EntriesK == {<<KeyK, x>> : x \in Scalars \cup {NoneV}}
EntriesA == {<<KeyA, x>> : x \in {StrV(<<"v">>), StrV(<<"{","{","k","}","}">>), NoneV}}
EntriesY ==
    {<<KeyY, x>> : x \in
        { ListV(<<StrV(<<"a">>), StrV(<<"b">>)>>),
          ListV(<<>>),
          NestedAB,
          DictV(<<  <<<<"A">>, ListV(<<StrV(<<"a">>), IntV(2)>>)>>,
                    <<<<"B">>, NoneV>>,
                    <<<<"C">>, DictV(<<>>)>>  >>) }}
EntriesG == {<<GenerationDate, StrV(<<"v">>)>>}

\* data records: dicts of at most two entries, in insertion order
DataRecords ==
    {<<>>}
      \cup {<<e>> : e \in EntriesK \cup EntriesA \cup EntriesY \cup EntriesG}
      \cup {<<p[1], p[2]>> : p \in {<<KeyK, StrV(<<"v">>)>>,
                                    <<KeyK, StrV(<<"{","{","a","}","}">>)>>} \X EntriesA}
      \cup {<<p[1], p[2]>> : p \in EntriesA \X {<<KeyK, StrV(<<"v">>)>>,
                                                <<KeyK, StrV(<<"{","{","a","}","}">>)>>}}
      \cup {<<p[1], p[2]>> : p \in {<<KeyY, NestedAB>>} \X EntriesG}

\* what datetime.now() may return
Timestamps ==
    { [Y |-> 2024, M |-> 1, D |-> 5, h |-> 9, m |-> 7],
      [Y |-> 2026, M |-> 11, D |-> 30, h |-> 23, m |-> 59] }

(***************************************************************************)
(* SpecFill: one processor object and the calls made on it.                *)
(***************************************************************************)
\* no markdown_to_docx call is under way
RenderIdle ==
    /\ rpc = "idle"
    /\ doc = <<>>
    /\ current_list = <<>>
    /\ in_table = FALSE
    /\ table_data = <<>>
    /\ line = <<>>
    /\ pos = 0
    /\ list_src = <<>>
    /\ table_src = <<>>
    /\ origin = <<>>
    /\ buffered = 0

\* __init__
Constructed ==
    /\ template = DefaultTemplate
    /\ filled_content = <<>>
    /\ data = <<>>
    /\ ret = <<>>
    /\ call = [made |-> FALSE, T |-> <<>>, d |-> <<>>]
    /\ calls = 0

InitFill == Constructed /\ RenderIdle

\* set_custom_template(t)
set_custom_template ==
    /\ calls < MaxCalls
    /\ \E t \in Templates : template' = t
    /\ calls' = calls + 1
    /\ UNCHANGED <<filled_content, data, ret, call>>
    /\ UNCHANGED renderVars

\* the body of fill_template(d), the clock reading `now`
FillBody ==
    /\ \E d \in DataRecords, now \in Timestamps :
          LET d1 == WithGenerationDate(d, now)
              filled == FillResult(template, d1)
          IN  /\ call' = [made |-> TRUE, T |-> template, d |-> d]
              /\ data' = d1
              /\ filled_content' = filled
              /\ ret' = filled
    /\ calls' = calls + 1
    /\ UNCHANGED template
    /\ UNCHANGED renderVars

\* fill_template(d)
fill_template ==
    /\ calls < MaxCalls
    /\ FillBody

NextFill == set_custom_template \/ fill_template

SpecFill == InitFill /\ [][NextFill]_vars

(***************************************************************************)
(* More of str and re, as markdown_to_docx uses them.                      *)
(***************************************************************************)
RECURSIVE LStrip(_)
\* s.lstrip()
LStrip(s) == IF s # <<>> /\ IsSpace(Head(s)) THEN LStrip(Tail(s)) ELSE s

RECURSIVE RStrip(_)
\* s.rstrip()
RStrip(s) ==
    IF s # <<>> /\ IsSpace(s[Len(s)]) THEN RStrip(SubSeq(s, 1, Len(s) - 1)) ELSE s

\* s.strip()
Strip(s) == RStrip(LStrip(s))

RECURSIVE LStripChar(_, _)
\* s.lstrip(c) for a single character c
LStripChar(s, c) == IF s # <<>> /\ Head(s) = c THEN LStripChar(Tail(s), c) ELSE s

RECURSIVE SplitFrom(_, _, _)
\* the tail of s.split(c) from index i on
SplitFrom(s, c, i) ==
    LET j == FirstFrom(Occurrences(s, <<c>>), i)
    IN  IF j = 0 THEN <<SubSeq(s, i, Len(s))>>
        ELSE <<SubSeq(s, i, j - 1)>> \o SplitFrom(s, c, j + 1)

\* s.split(c) for a single character c
Split(s, c) == SplitFrom(s, c, 1)

RECURSIVE NonSpaceRunLen(_, _)
\* the length of the run of non-whitespace characters of s starting at i
NonSpaceRunLen(s, i) ==
    IF i <= Len(s) /\ ~IsSpace(s[i]) THEN 1 + NonSpaceRunLen(s, i + 1) ELSE 0

\* s.split()[0] for a string s that is not all whitespace
FirstWord(s) ==
    LET t == LStrip(s) IN SubSeq(t, 1, NonSpaceRunLen(t, 1))

\* what \d matches, among the characters used here
IsDigit(c) == c \in {"0", "1", "2", "3", "4", "5", "6", "7", "8", "9"}

RECURSIVE DigitRunLen(_, _)
\* the length of the run of digits of s starting at index i
DigitRunLen(s, i) ==
    IF i <= Len(s) /\ IsDigit(s[i]) THEN 1 + DigitRunLen(s, i + 1) ELSE 0

\* re.match(r'^\d+\.', s) is not None
IsNumbered(s) ==
    LET n == DigitRunLen(s, 1)
    IN  n > 0 /\ n + 1 <= Len(s) /\ s[n + 1] = "."

\* re.sub(r'^\d+\.\s*', '', s) for an s that IsNumbered
StripNumber(s) == LStrip(SubSeq(s, DigitRunLen(s, 1) + 2, Len(s)))

\* s.startswith(('- ', '* ', '+ '))
IsBullet(s) ==
    \/ StartsWith(s, <<"-", " ">>)
    \/ StartsWith(s, <<"*", " ">>)
    \/ StartsWith(s, <<"+", " ">>)

(***************************************************************************)
(* The document.  A block element is [kind, style, runs, rows]: a          *)
(* paragraph ("p") has a style name and runs [text, bold, italic]; a table *)
(* ("tbl") has rows of cells, a cell being the runs of its paragraph       *)
(* (none until cell.text is set).                                          *)
(***************************************************************************)
Run(text, bold, italic) == [text |-> text, bold |-> bold, italic |-> italic]

Para(style, runs) == [kind |-> "p", style |-> style, runs |-> runs, rows |-> <<>>]

Tbl(rows) ==
    [kind |-> "tbl", style |-> "Light Shading Accent 1", runs |-> <<>>, rows |-> rows]

\* doc.add_paragraph(text, style): a run is added only for a non-empty text
DocAddParagraph(d, text, style) ==
    Append(d, Para(style, IF text = <<>> THEN <<>> ELSE <<Run(text, FALSE, FALSE)>>))

\* the style doc.add_heading(text, level) gives the paragraph, level in 1..3
HeadingStyle(level) ==
    CASE level = 1 -> "Heading 1"
      [] level = 2 -> "Heading 2"
      [] level = 3 -> "Heading 3"

\* _add_heading(doc, text, level)
_add_heading(d, text, level) ==
    IF level <= 3 THEN DocAddParagraph(d, text, HeadingStyle(level))
    ELSE DocAddParagraph(d, text, "Heading 3")

\* _add_paragraph(doc, text)
_add_paragraph(d, text) ==
    IF text # <<>> THEN DocAddParagraph(d, text, "Normal") ELSE d

\* _add_list_to_doc(doc, items)
_add_list_to_doc(d, items) ==
    d \o [n \in 1..Len(items) |->
              Para("List Bullet",
                   IF items[n] = <<>> THEN <<>> ELSE <<Run(items[n], FALSE, FALSE)>>)]

\* the level markdown_to_docx computes for a heading line
HeadingLevel(l) == Len(FirstWord(l))

\* the text markdown_to_docx computes for a heading line
HeadingText(l) == Strip(LStripChar(l, "#"))

(***************************************************************************)
(* _add_formatted_paragraph.                                               *)
(***************************************************************************)
\* the index where the match of \*\*.*?\*\* starting at i ends, 0 if none:
\* .*? is lazy, so the match closes at the first "**" from i + 2 on
BoldMatchEnd(s, i) ==
    IF StartsWithAt(s, <<"*", "*">>, i)
    THEN LET j == FirstFrom(Occurrences(s, <<"*", "*">>), i + 2)
         IN  IF j = 0 THEN 0 ELSE j + 1
    ELSE 0

RECURSIVE BoldSplitFrom(_, _)
\* the tail of re.split(r'(\*\*.*?\*\*)', s) from index i on: the text before
\* the next match, the match, and so on
BoldSplitFrom(s, i) ==
    LET j == FirstFrom({n \in i..Len(s) : BoldMatchEnd(s, n) > 0}, i)
    IN  IF j = 0 THEN <<SubSeq(s, i, Len(s))>>
        ELSE <<SubSeq(s, i, j - 1), SubSeq(s, j, BoldMatchEnd(s, j))>>
                 \o BoldSplitFrom(s, BoldMatchEnd(s, j) + 1)

\* re.split(r'(\*\*.*?\*\*)', s)
BoldSplit(s) == BoldSplitFrom(s, 1)

\* part[a:-b] for a string part
Slice(part, a, b) == SubSeq(part, a + 1, Len(part) - b)

\* the run the loop of _add_formatted_paragraph adds for one part
PartRun(part) ==
    IF StartsWith(part, <<"*", "*">>) /\ EndsWith(part, <<"*", "*">>)
    THEN Run(Slice(part, 2, 2), TRUE, FALSE)
    ELSE IF /\ StartsWith(part, <<"*">>)
            /\ EndsWith(part, <<"*">>)
            /\ ~StartsWith(part, <<"*", "*">>)
    THEN Run(Slice(part, 1, 1), FALSE, TRUE)
    ELSE Run(part, FALSE, FALSE)

\* _add_formatted_paragraph(doc, text)
_add_formatted_paragraph(d, text) ==
    LET parts == BoldSplit(text)
    IN  Append(d, Para("Normal", [n \in 1..Len(parts) |-> PartRun(parts[n])]))

(***************************************************************************)
(* _add_table_to_doc.                                                      *)
(***************************************************************************)
\* [cell.strip() for cell in row.split('|')[1:-1]]
RowCells(row) ==
    LET segs == Split(row, "|")
    IN  [n \in 1..(Len(segs) - 2) |-> Strip(segs[n + 1])]

\* '---' not in row
IsDataRow(row) == ~Contains(row, <<"-", "-", "-">>)

RECURSIVE cleaned_data(_)
\* the list cleaned_data built from table_data
cleaned_data(td) ==
    IF td = <<>> THEN <<>>
    ELSE (IF IsDataRow(td[1]) THEN <<RowCells(td[1])>> ELSE <<>>)
             \o cleaned_data(Tail(td))

\* the first row of cleaned that row.cells[j] fails on with IndexError (it
\* has more cells than the table has columns), 0 if there is none
FirstOverlongRow(cleaned) ==
    FirstFrom({i \in 1..Len(cleaned) : Len(cleaned[i]) > Len(cleaned[1])}, 1)

\* the table as the fill loop leaves it: rows x cols cells, a cell set for
\* each cell_data the loop reached, the runs of row 0 set bold; the loop
\* stops in row `stop` (0: never) once that row's columns are used up
FilledTable(cleaned, stop) ==
    [i \in 1..Len(cleaned) |->
        [j \in 1..Len(cleaned[1]) |->
            IF j <= Len(cleaned[i]) /\ (stop = 0 \/ i <= stop)
            THEN <<Run(cleaned[i][j], i = 1, FALSE)>>
            ELSE <<>>]]

\* a faulty _add_table_to_doc: the `if i == 0` test is lost, every row is bold
AddTableAllBold(d, td) ==
    LET cleaned == cleaned_data(td)
        stop == IF cleaned = <<>> THEN 0 ELSE FirstOverlongRow(cleaned)
        rows == [i \in 1..Len(cleaned) |->
                    [j \in 1..Len(cleaned[1]) |->
                        IF j <= Len(cleaned[i]) /\ (stop = 0 \/ i <= stop)
                        THEN <<Run(cleaned[i][j], TRUE, FALSE)>>
                        ELSE <<>>]]
    IN  IF cleaned = <<>> THEN [doc |-> d, raised |-> FALSE]
        ELSE [doc |-> Append(d, Tbl(rows)), raised |-> stop # 0]

\* a faulty _add_table_to_doc: the loop runs over the columns, so a row with
\* fewer cells than columns fails and the cells past the last column are
\* skipped
AddTableShortFails(d, td) ==
    LET cleaned == cleaned_data(td)
        stop == IF cleaned = <<>> THEN 0
                ELSE FirstFrom({i \in 1..Len(cleaned) :
                                   Len(cleaned[i]) < Len(cleaned[1])}, 1)
    IN  IF cleaned = <<>> THEN [doc |-> d, raised |-> FALSE]
        ELSE [doc |-> Append(d, Tbl(FilledTable(cleaned, stop))),
              raised |-> stop # 0]

\* _add_table_to_doc(doc, table_data): the document it leaves and whether it
\* raised IndexError
_add_table_to_doc(d, td) ==
    LET cleaned == cleaned_data(td)
        stop == IF cleaned = <<>> THEN 0 ELSE FirstOverlongRow(cleaned)
    IN  IF cleaned = <<>> THEN [doc |-> d, raised |-> FALSE]
        ELSE [doc |-> Append(d, Tbl(FilledTable(cleaned, stop))),
              raised |-> stop # 0]

(***************************************************************************)
(* SpecRender: one markdown_to_docx call.  The text is taken one line at a *)
(* time (markdown_content.split('\n') gives at least one line); each step  *)
(* of the loop is one action, by the branch of the if/elif chain it takes. *)
(***************************************************************************)
\* the lines a text may hold, before line.strip()
RawLines ==
    { <<>>,
      <<" "," ">>,
      <<"t">>,
      <<" ","t"," ">>,
      <<"#"," ","H">>,
      <<"#","H">>,
      <<"#","#"," ","H">>,
      <<"#","#","H">>,
      <<"#","#","#","#"," ","H">>,
      <<"|"," ","a"," ","|">>,
      <<"|"," ","a"," ","|"," ","b"," ","|">>,
      <<"|","-","-","-","|">>,
      <<"-"," ","i">>,
      <<"*"," ","j">>,
      <<"1","."," ","n">>,
      <<"*","*","b","*","*"," ","t">>,
      <<"-"," ","i"," ","|"," ","x">> }

\* the branch of the if/elif chain a (stripped) line takes
Classify(l, intable) ==
    IF l = <<>> THEN "blank"
    ELSE IF StartsWith(l, <<"#">>) THEN "heading"
    ELSE IF Contains(l, <<"|">>) THEN "table_row"
    ELSE IF intable /\ ~Contains(l, <<"|">>) THEN "table_close"
    ELSE IF IsBullet(l) THEN "bullet"
    ELSE IF IsNumbered(l) THEN "numbered"
    ELSE IF Contains(l, <<"*", "*">>) THEN "bold"
    ELSE "plain"

\* markdown_to_docx entered: a new Document, the locals initialised
InitRender ==
    /\ Constructed
    /\ rpc = "loop"
    /\ doc = <<>>
    /\ current_list = <<>>
    /\ in_table = FALSE
    /\ table_data = <<>>
    /\ line = <<>>
    /\ pos = 0
    /\ list_src = <<>>
    /\ table_src = <<>>
    /\ origin = <<>>
    /\ buffered = 0

\* the loop takes the next line, which takes branch `branch`
Takes(raw, branch) ==
    /\ rpc = "loop"
    /\ pos < MaxLines
    /\ Classify(Strip(raw), in_table) = branch
    /\ line' = Strip(raw)
    /\ pos' = pos + 1

\* `if current_list:` flush it and clear it, then add the elements `more`
\* for the current line
FlushListThen(more) ==
    /\ doc' = _add_list_to_doc(doc, current_list) \o more
    /\ origin' = origin \o [n \in 1..Len(list_src) |-> {list_src[n]}]
                        \o [n \in 1..Len(more) |-> {pos + 1}]
    /\ current_list' = <<>>
    /\ list_src' = <<>>

\* `if not line:`
BlankLine ==
    /\ \E raw \in RawLines : Takes(raw, "blank")
    /\ FlushListThen(<<>>)
    /\ UNCHANGED <<rpc, in_table, table_data, table_src, buffered>>
    /\ UNCHANGED fillVars

\* `if line.startswith('#'):`
HeadingLine ==
    /\ \E raw \in RawLines :
          /\ Takes(raw, "heading")
          /\ FlushListThen(_add_heading(<<>>, HeadingText(Strip(raw)),
                                      HeadingLevel(Strip(raw))))
    /\ UNCHANGED <<rpc, in_table, table_data, table_src, buffered>>
    /\ UNCHANGED fillVars

\* `elif '|' in line:`
TableRowLine ==
    /\ \E raw \in RawLines :
          /\ Takes(raw, "table_row")
          /\ in_table' = TRUE
          /\ table_data' = Append(IF in_table THEN table_data ELSE <<>>, Strip(raw))
          /\ table_src' = Append(IF in_table THEN table_src ELSE <<>>, pos + 1)
    /\ UNCHANGED <<rpc, doc, current_list, list_src, origin, buffered>>
    /\ UNCHANGED fillVars

\* `elif in_table and '|' not in line:`
TableCloseLine ==
    /\ \E raw \in RawLines :
          /\ Takes(raw, "table_close")
          /\ LET t == IF table_data # <<>> THEN _add_table_to_doc(doc, table_data)
                      ELSE [doc |-> doc, raised |-> FALSE]
                 o == IF Len(t.doc) > Len(doc)
                      THEN Append(origin, {table_src[n] : n \in 1..Len(table_src)})
                      ELSE origin
             IN  IF t.raised
                 THEN /\ rpc' = "raised"
                      /\ doc' = t.doc
                      /\ origin' = o
                      /\ UNCHANGED <<in_table, table_data, table_src>>
                 ELSE /\ rpc' = rpc
                      /\ doc' = _add_paragraph(t.doc, Strip(raw))
                      /\ origin' = Append(o, {pos + 1})
                      /\ in_table' = FALSE
                      /\ table_data' = <<>>
                      /\ table_src' = <<>>
    /\ UNCHANGED <<current_list, list_src, buffered>>
    /\ UNCHANGED fillVars

\* `elif line.startswith(('- ', '* ', '+ ')):`
BulletLine ==
    /\ \E raw \in RawLines :
          /\ Takes(raw, "bullet")
          /\ current_list' = Append(current_list, Slice(Strip(raw), 2, 0))
    /\ list_src' = Append(list_src, pos + 1)
    /\ buffered' = buffered + 1
    /\ UNCHANGED <<rpc, doc, in_table, table_data, table_src, origin>>
    /\ UNCHANGED fillVars

\* `elif re.match(r'^\d+\.', line):`
NumberedLine ==
    /\ \E raw \in RawLines :
          /\ Takes(raw, "numbered")
          /\ current_list' = Append(current_list, StripNumber(Strip(raw)))
    /\ list_src' = Append(list_src, pos + 1)
    /\ buffered' = buffered + 1
    /\ UNCHANGED <<rpc, doc, in_table, table_data, table_src, origin>>
    /\ UNCHANGED fillVars

\* `elif '**' in line:`
BoldLine ==
    /\ \E raw \in RawLines :
          /\ Takes(raw, "bold")
          /\ FlushListThen(_add_formatted_paragraph(<<>>, Strip(raw)))
    /\ UNCHANGED <<rpc, in_table, table_data, table_src, buffered>>
    /\ UNCHANGED fillVars

\* `else:`
PlainLine ==
    /\ \E raw \in RawLines :
          /\ Takes(raw, "plain")
          /\ FlushListThen(_add_paragraph(<<>>, Strip(raw)))
    /\ UNCHANGED <<rpc, in_table, table_data, table_src, buffered>>
    /\ UNCHANGED fillVars

\* the loop is over: the remaining list items, then the remaining table
EndOfInput ==
    /\ rpc = "loop"
    /\ pos >= 1
    /\ LET d1 == _add_list_to_doc(doc, current_list)
           o1 == origin \o [n \in 1..Len(list_src) |-> {list_src[n]}]
           t == IF in_table /\ table_data # <<>> THEN _add_table_to_doc(d1, table_data)
                ELSE [doc |-> d1, raised |-> FALSE]
       IN  /\ doc' = t.doc
           /\ origin' = IF Len(t.doc) > Len(d1)
                        THEN Append(o1, {table_src[n] : n \in 1..Len(table_src)})
                        ELSE o1
           /\ rpc' = IF t.raised THEN "raised" ELSE "done"
    /\ UNCHANGED <<current_list, in_table, table_data, line, pos,
                   list_src, table_src, buffered>>
    /\ UNCHANGED fillVars

NextRender ==
    \/ BlankLine
    \/ HeadingLine
    \/ TableRowLine
    \/ TableCloseLine
    \/ BulletLine
    \/ NumberedLine
    \/ BoldLine
    \/ PlainLine
    \/ EndOfInput

SpecRender == InitRender /\ [][NextRender]_vars


(***************************************************************************)
(* SpecTable: _add_table_to_doc called on buffered rows.  The rows are     *)
(* stripped lines that contain '|', as markdown_to_docx buffers them.      *)
(***************************************************************************)
TableRows ==
    { <<"|"," ","H","1"," ","|"," ","H","2"," ","|">>,
      <<"|"," ","-","-","-"," ","|"," ","-","-","-"," ","|">>,
      <<"|"," ","a"," ","|"," ","b"," ","|">>,
      <<"|"," ","a"," ","|">>,
      <<"|"," ","a"," ","|"," ","b"," ","|"," ","c"," ","|">>,
      <<"|">>,
      <<"a"," ","|"," ","b">> }

RECURSIVE SeqsUpTo(_, _)
\* the sequences of at most n elements of S
SeqsUpTo(S, n) ==
    IF n = 0 THEN {<<>>}
    ELSE LET shorter == SeqsUpTo(S, n - 1)
         IN  shorter \cup {Append(q, x) : q \in shorter, x \in S}

InitTable ==
    /\ Constructed
    /\ rpc = "table_call"
    /\ table_data \in SeqsUpTo(TableRows, MaxRows) \ {<<>>}
    /\ doc = <<>>
    /\ current_list = <<>>
    /\ in_table = TRUE
    /\ line = <<>>
    /\ pos = 0
    /\ list_src = <<>>
    /\ table_src = <<>>
    /\ origin = <<>>
    /\ buffered = 0

\* self._add_table_to_doc(doc, table_data)
CallAddTable ==
    /\ rpc = "table_call"
    /\ LET t == _add_table_to_doc(doc, table_data)
       IN  /\ doc' = t.doc
           /\ rpc' = IF t.raised THEN "raised" ELSE "table_done"
    /\ UNCHANGED <<current_list, in_table, table_data, line, pos,
                   list_src, table_src, origin, buffered>>
    /\ UNCHANGED fillVars

NextTable == CallAddTable

SpecTable == InitTable /\ [][NextTable]_vars

(***************************************************************************)
(* SpecInline: _add_formatted_paragraph called on one line, a line the     *)
(* loop of markdown_to_docx sends to it.                                   *)
(***************************************************************************)
\* "**bold** and *italic* and plain"
InlineExample == <<"*","*","b","o","l","d","*","*"," ","a","n","d"," ","*","i","t","a","l","i","c","*"," ","a","n","d"," ","p","l","a","i","n">>

InlineTexts ==
    {t \in SeqsUpTo({"*", "b", " "}, MaxInlineLen) :
        Strip(t) = t /\ Classify(t, FALSE) = "bold"}
      \cup {InlineExample}

InitInline ==
    /\ Constructed
    /\ rpc = "inline_call"
    /\ line \in InlineTexts
    /\ doc = <<>>
    /\ current_list = <<>>
    /\ in_table = FALSE
    /\ table_data = <<>>
    /\ pos = 0
    /\ list_src = <<>>
    /\ table_src = <<>>
    /\ origin = <<>>
    /\ buffered = 0

\* self._add_formatted_paragraph(doc, line)
CallAddFormatted ==
    /\ rpc = "inline_call"
    /\ doc' = _add_formatted_paragraph(doc, line)
    /\ rpc' = "inline_done"
    /\ UNCHANGED <<current_list, in_table, table_data, line, pos,
                   list_src, table_src, origin, buffered>>
    /\ UNCHANGED fillVars

NextInline == CallAddFormatted

SpecInline == InitInline /\ [][NextInline]_vars

(***************************************************************************)
(* SpecFillAll: fill_template as a function of the template and the data   *)
(* record.  The processor holds any template of at most MaxTemplateLen     *)
(* braces and identifier characters, or one of Templates, or the default   *)
(* one, and fill_template is called on it once.                            *)
(***************************************************************************)
TemplateChars == {"{", "}", "k"}

ShortTemplates == SeqsUpTo(TemplateChars, MaxTemplateLen)

\* the processor after __init__ or after set_custom_template(t)
InitFillAll ==
    /\ template \in ShortTemplates \cup Templates \cup {DefaultTemplate}
    /\ filled_content = <<>>
    /\ data = <<>>
    /\ ret = <<>>
    /\ call = [made |-> FALSE, T |-> <<>>, d |-> <<>>]
    /\ calls = 0
    /\ RenderIdle

\* the one fill_template(d) call
FillOnce ==
    /\ ~call.made
    /\ FillBody

NextFillAll == FillOnce

SpecFillAll == InitFillAll /\ [][NextFillAll]_vars

(***************************************************************************)
(* Properties of markdown_to_docx.                                         *)
(***************************************************************************)
\* C2: after every processed line at most one block group is open: the
\* list-item buffer is non-empty or the table buffer is open, never both.
C2_AtMostOneGroupOpen ==
    rpc = "loop" => ~(current_list # <<>> /\ in_table)

\* a table row was taken while list items were buffered
C2_Witness == rpc = "loop" /\ current_list # <<>> /\ in_table

\* the step takes one more line without the call raising
LineStep == rpc = "loop" /\ rpc' = "loop" /\ pos' = pos + 1

\* C3: while a table is open, a blank line leaves it open, a non-blank line
\* without '|' flushes the buffered rows into a table and clears the in-table
\* state before the line produces any output, and any other line leaves the
\* table open.
C3_TableClosesOnNonPipeLine ==
    [][(LineStep /\ in_table) =>
          IF line' = <<>>
          THEN in_table' /\ table_data' = table_data /\ doc' = doc
          ELSE IF ~Contains(line', <<"|">>)
          THEN /\ ~in_table'
               /\ table_data' = <<>>
               /\ Len(doc') > Len(doc)
               /\ SubSeq(doc', 1, Len(doc) + 1)
                      = _add_table_to_doc(doc, table_data).doc
          ELSE in_table']_vars

\* a line without '|' was taken with the table open, and the table stayed
\* open
C3_Witness ==
    /\ rpc = "loop"
    /\ in_table
    /\ line # <<>>
    /\ ~Contains(line, <<"|">>)

\* the number of leading '#' characters of l
LeadingHashes(l) == Len(l) - Len(LStripChar(l, "#"))

\* C4: for a line that begins with '#', the heading level is the number of
\* its leading '#' characters, whether or not a space follows them, and the
\* text is the line without them and the surrounding whitespace; levels 1-3
\* give a heading of that level, a level >= 4 a paragraph styled Heading 3.
C4_HeadingLevel ==
    (rpc = "loop" /\ pos >= 1 /\ StartsWith(line, <<"#">>)) =>
        LET n == LeadingHashes(line)
            text == Strip(SubSeq(line, n + 1, Len(line)))
        IN  /\ doc # <<>>
            /\ doc[Len(doc)] =
                   Para(HeadingStyle(IF n <= 3 THEN n ELSE 3),
                        IF text = <<>> THEN <<>> ELSE <<Run(text, FALSE, FALSE)>>)

\* a heading line with no space after the '#' was taken
C4_Witness ==
    /\ rpc = "loop"
    /\ line = <<"#","H">>
    /\ doc # <<>>
    /\ doc[Len(doc)].style = "Heading 2"

\* the greatest element of a set of numbers
MaxOf(S) == CHOOSE x \in S : \A y \in S : x >= y

\* C10: the block elements are appended in source order: an element for an
\* earlier line comes before an element for a later line; and every
\* buffered list item is emitted exactly once.
C10_SourceOrder ==
    rpc = "done" =>
        /\ \A p \in 1..Len(origin), q \in 1..Len(origin) :
              p < q => MaxOf(origin[p]) < MinOf(origin[q])
        /\ Cardinality({n \in 1..Len(doc) : doc[n].style = "List Bullet"})
               = buffered

\* the call returned a document whose elements are out of source order
C10_Witness ==
    /\ rpc = "done"
    /\ \E p \in 1..Len(origin), q \in 1..Len(origin) :
          p < q /\ MaxOf(origin[p]) > MinOf(origin[q])

(***************************************************************************)
(* Properties of _add_table_to_doc.                                        *)
(***************************************************************************)
\* the rows of td that do not contain '---'
Surviving(td) == SelectSeq(td, IsDataRow)

\* the positions of '|' in row, in order
Bars(row) ==
    LET at == Occurrences(row, <<"|">>)
    IN  [n \in 1..Cardinality(at) |->
            CHOOSE i \in at : Cardinality({k \in at : k < i}) = n - 1]

\* the trimmed texts between consecutive '|' of row
InnerSegments(row) ==
    LET b == Bars(row)
    IN  [n \in 1..(IF Len(b) = 0 THEN 0 ELSE Len(b) - 1) |->
            Strip(SubSeq(row, b[n] + 1, b[n + 1] - 1))]

\* no surviving row of td has more cells than the first surviving row
NoOverlongRow(td) ==
    LET surv == Surviving(td)
    IN  \A i \in 1..Len(surv) :
            Len(InnerSegments(surv[i])) <= Len(InnerSegments(surv[1]))

\* the call has come back, one way or the other
TableCallOver == rpc \in {"table_done", "raised"}

\* the document holds the table the claim describes for table_data: one row
\* per surviving line in order, as many columns as the first surviving row
\* has cells, each cell the trimmed segment, bold on the first row only
\* (nothing to render when no line survives)
TableAsDescribed ==
    LET surv == Surviving(table_data)
    IN  IF surv = <<>> THEN rpc = "table_done" /\ doc = <<>>
        ELSE /\ rpc = "table_done"
             /\ Len(doc) = 1
             /\ doc[1].kind = "tbl"
             /\ Len(doc[1].rows) = Len(surv)
             /\ \A i \in 1..Len(surv) :
                   LET segs == InnerSegments(surv[i])
                       row == doc[1].rows[i]
                   IN  /\ Len(row) = Len(InnerSegments(surv[1]))
                       /\ \A j \in 1..Len(row) :
                             IF j <= Len(segs)
                             THEN row[j] = <<Run(segs[j], i = 1, FALSE)>>
                             ELSE row[j] = <<>>

\* the rows '| H1 | H2 |', '| --- | --- |', '| a | b |'
TableExample == << <<"|"," ","H","1"," ","|"," ","H","2"," ","|">>, <<"|"," ","-","-","-"," ","|"," ","-","-","-"," ","|">>, <<"|"," ","a"," ","|"," ","b"," ","|">> >>

\* the 2x2 table with bold header H1, H2 and data a, b
TableExampleRendered ==
    Tbl(<< << <<Run(<<"H","1">>, TRUE, FALSE)>>, <<Run(<<"H","2">>, TRUE, FALSE)>> >>,
           << <<Run(<<"a">>, FALSE, FALSE)>>, <<Run(<<"b">>, FALSE, FALSE)>> >> >>)

\* C6 as stated: for any buffered rows the rendered table has one row per
\* line without '---', in order, the columns of the first surviving row,
\* each cell the trimmed inner segment, bold on the first surviving row only.
C6_TableRendering_Stated ==
    TableCallOver =>
        /\ TableAsDescribed
        /\ table_data = TableExample => doc = <<TableExampleRendered>>

\* C6 amended: the same, for buffered rows none of which has more cells than
\* the first surviving row; the cells a shorter row does not reach stay
\* empty.
C6_TableRendering ==
    (TableCallOver /\ NoOverlongRow(table_data)) =>
        /\ TableAsDescribed
        /\ table_data = TableExample => doc = <<TableExampleRendered>>

\* the example rows were rendered
C6_Witness ==
    /\ rpc = "table_done"
    /\ table_data = TableExample
    /\ doc = <<TableExampleRendered>>

\* some surviving row of td has fewer / more cells than the first one
HasShorterRow(td) ==
    LET surv == Surviving(td)
    IN  \E i \in 1..Len(surv) :
            Len(InnerSegments(surv[i])) < Len(InnerSegments(surv[1]))

HasLongerRow(td) == ~NoOverlongRow(td)

\* C9 as stated: the call fails with an out-of-bounds error exactly when a
\* row has fewer cells than the header row.
C9_RaggedTable_Stated ==
    TableCallOver => (rpc = "raised" <=> HasShorterRow(table_data))

\* C9 amended: the call fails with IndexError exactly when a surviving row
\* has more cells than the first surviving row; a row with fewer cells
\* leaves its remaining cells empty and nothing fails.
C9_RaggedTable ==
    TableCallOver => (rpc = "raised" <=> HasLongerRow(table_data))

\* a row longer than the header made the call fail, the table left half
\* filled
C9_Witness ==
    /\ rpc = "raised"
    /\ table_data = << <<"|"," ","a"," ","|">>, <<"|"," ","a"," ","|"," ","b"," ","|">> >>
    /\ Len(doc) = 1

(***************************************************************************)
(* Properties of _add_formatted_paragraph.                                 *)
(***************************************************************************)
\* the runs with some text
NonEmptyRuns(runs) == SelectSeq(runs, LAMBDA r : r.text # <<>>)

\* s holds a span *x* in single asterisks, x not empty and without '*'
HasItalicSpan(s) ==
    \E i \in 1..Len(s) :
        /\ s[i] = "*"
        /\ (i = 1 \/ s[i - 1] # "*")
        /\ \E j \in (i + 2)..Len(s) :
              /\ s[j] = "*"
              /\ (j = Len(s) \/ s[j + 1] # "*")
              /\ \A n \in (i + 1)..(j - 1) : s[n] # "*"

\* C7: the line is split into runs in order, every **...** span a bold run
\* without its markers, every *...* span an italic run without its markers,
\* all other text plain; "**bold** and *italic* and plain" gives bold
\* "bold", plain " and ", italic "italic", plain " and plain".
C7_InlineRuns ==
    rpc = "inline_done" =>
        /\ line = InlineExample =>
              NonEmptyRuns(doc[1].runs) =
                  << Run(<<"b","o","l","d">>, TRUE, FALSE),
                     Run(<<" ","a","n","d"," ">>, FALSE, FALSE),
                     Run(<<"i","t","a","l","i","c">>, FALSE, TRUE),
                     Run(<<" ","a","n","d"," ","p","l","a","i","n">>, FALSE, FALSE) >>
        /\ \A n \in 1..Len(doc[1].runs) :
              LET r == doc[1].runs[n]
              IN  (~r.bold /\ ~r.italic) => ~HasItalicSpan(r.text)

\* the example line was formatted: its italic span sits inside a plain run
C7_Witness ==
    /\ rpc = "inline_done"
    /\ line = InlineExample
    /\ doc[1].runs =
           << Run(<<>>, FALSE, FALSE),
              Run(<<"b","o","l","d">>, TRUE, FALSE),
              Run(<<" ","a","n","d"," ","*","i","t","a","l","i","c","*"," ","a","n","d"," ","p","l","a","i","n">>, FALSE, FALSE) >>

(***************************************************************************)
(* Properties of fill_template.                                            *)
(***************************************************************************)
\* s contains a substring {{identifier}}, identifier in [A-Za-z0-9_]+
HasPlaceholder(s) ==
    \E i \in 1..Len(s) :
        /\ StartsWithAt(s, <<"{", "{">>, i)
        /\ \E j \in (i + 3)..(Len(s) - 1) :
              /\ StartsWithAt(s, <<"}", "}">>, j)
              /\ \A n \in (i + 2)..(j - 1) : s[n] \in AsciiWordChars

\* C1: the string fill_template returns (and stores in filled_content)
\* contains no substring {{identifier}}, whatever the template and the data
\* record, values that themselves hold placeholder-like text included.
C1_NoPlaceholderLeft ==
    call.made => ~HasPlaceholder(ret) /\ ~HasPlaceholder(filled_content)

\* a value holding "{{a}}" was substituted for {{k}} and the final pass
\* replaced the token it brought in
C1_Witness ==
    /\ call.made
    /\ call.T = <<"{","{","k","}","}","{","{","a","}","}">>
    /\ call.d = << <<KeyK, StrV(<<"{","{","a","}","}">>)>> >>
    /\ ret = ToBeFilled \o ToBeFilled

\* the display string of data's value for placeholder `name`, the sentinel
\* when data has no such key
ValueFor(d, name) ==
    IF HasKey(d, name)
    THEN Display(d[CHOOSE n \in 1..Len(d) : d[n][1] = name][2])
    ELSE ToBeFilled

RECURSIVE SinglePassFrom(_, _, _, _)
\* t from index i on with every placeholder site (ms: where they start)
\* replaced by its value and all text between the sites kept
SinglePassFrom(t, i, ms, d) ==
    LET j == FirstFrom(ms, i)
    IN  IF j = 0 THEN SubSeq(t, i, Len(t))
        ELSE LET n == MatchLenAt(t, j)
             IN  SubSeq(t, i, j - 1) \o ValueFor(d, SubSeq(t, j + 2, j + n - 3))
                     \o SinglePassFrom(t, j + n, ms, d)

\* t with each {{identifier}} site replaced in place and nothing else changed
SitesReplaced(t, d) == SinglePassFrom(t, 1, Matches(t), d)

\* the last call was fill_template(T, {k: v}) with v a scalar
ScalarCall ==
    /\ call.made
    /\ Len(call.d) = 1
    /\ call.d[1][2].kind \in {"str", "int"}

\* every brace of t belongs to a {{identifier}} placeholder of t
BracesOnlyInPlaceholders(t) ==
    \A i \in 1..Len(t) :
        t[i] \in {"{", "}"} =>
            \E j \in Matches(t) : j <= i /\ i < j + MatchLenAt(t, j)

\* C5 as stated: for a scalar v whose string form does not contain "{{",
\* fill_template(T, {k: v}) is T with v at every {{k}} site (the other sites
\* resolved) and all text outside the sites unchanged.
C5_ScalarRoundTrip_Stated ==
    (ScalarCall /\ ~Contains(PyStr(call.d[1][2]), <<"{", "{">>))
        => ret = SitesReplaced(call.T, data)

\* C5 amended: the same, for a scalar v whose string form contains no brace
\* at all and a template whose braces all belong to {{identifier}}
\* placeholders.
C5_ScalarRoundTrip ==
    (/\ ScalarCall
     /\ ~Contains(PyStr(call.d[1][2]), <<"{">>)
     /\ ~Contains(PyStr(call.d[1][2]), <<"}">>)
     /\ BracesOnlyInPlaceholders(call.T))
        => ret = SitesReplaced(call.T, data)

\* {{k}} occurred twice and v stands at both sites
C5_Witness ==
    /\ ScalarCall
    /\ call.T = <<"{","{","k","}","}"," ","{","{","k","}","}">>
    /\ call.d = << <<KeyK, StrV(<<"v">>)>> >>
    /\ ret = <<"v"," ","v">>

\* the last call was fill_template({"y": {"A": {"B": "1"}}}) on the template
\* "{{y}}"
NestedCall ==
    /\ call.made
    /\ call.T = <<"{","{","y","}","}">>
    /\ call.d = << <<KeyY, NestedAB>> >>

\* C8 as stated: {"A": {"B": "1"}} bound to y in the template "{{y}}" fills
\* to "- **A:**\n- **B:** 1".
C8_NestedMapping_Stated == NestedCall => ret = <<"-"," ","*","*","A",":","*","*","\n","-"," ","*","*","B",":","*","*"," ","1">>

\* C8 amended: it fills to "- **A:**\n  - **B:** 1": the bullet of the nested
\* mapping is indented by two spaces.
C8_NestedMapping == NestedCall => ret = <<"-"," ","*","*","A",":","*","*","\n"," "," ","-"," ","*","*","B",":","*","*"," ","1">>

\* the nested mapping was rendered: two bullet lines came back
C8_Witness == NestedCall /\ Contains(ret, <<"\n">>) /\ Contains(ret, <<"*","*","B",":","*","*"," ","1">>)

=============================================================================
